---- MODULE Spec2Model ----
(***************************************************************************)
(* Order-status materialization pipeline of the retail demo:                *)
(*   - RETAIL.RAW.EVENTS, the append-only log of status-change events,      *)
(*     fed by the producers (etl_project/src/event_producer.py);            *)
(*   - RETAIL.DWH.ORDER_STATUS, created by setup_dwh and written only by    *)
(*     the MERGE statement, which is run by the scheduled task              *)
(*     TASK_AUTO_UPDATE_ORDER_STATUS (setup_automation.py) and by           *)
(*     run_merge (setup_database.py);                                       *)
(*   - the stream EVENTS_STRM created by setup_stream;                      *)
(*   - the two partitioners of etl_project/src/partitioner.py.              *)
(*                                                                          *)
(* Time.  A timestamp is an integer number of ticks; TicksPerDay ticks make *)
(* a day.  STATUS_TS is a timestamp (the producer stamps                    *)
(* datetime.now(timezone.utc)); ORDER_STATUS.LAST_UPDATE_TS is declared     *)
(* DATE, so a timestamp stored into it keeps its day only (ToDate) and a    *)
(* DATE compared with a timestamp is that day's midnight (DateToTimestamp). *)
(*                                                                          *)
(* A MERGE statement is modelled in two steps: it starts (Begin), reading   *)
(* the EVENTS rows committed so far, and it commits (Commit), applying the  *)
(* merge to ORDER_STATUS as it then is, under the table lock DML takes.     *)
(* Between the two the statement is in flight.  The scheduled task has one  *)
(* run at a time (CREATE TASK without ALLOW_OVERLAPPING_EXECUTION);         *)
(* run_merge runs on a connection of its own.                               *)
(*                                                                          *)
(* EVENTS is fed from outside these files: any event may be appended at any *)
(* time, late ones and ones that tie on STATUS_TS included.                 *)
(*                                                                          *)
(* Specifications: Spec (the pipeline), FairSpec (the pipeline with the     *)
(* task's schedule), RouteSpec (one call of a partitioner on any input).    *)
(***************************************************************************)
EXTENDS Integers, Sequences, FiniteSets, TLC

\* ------------------------------------------------------------------ bounds
MaxOrder == 2
MaxEvents == 2
MaxDay == 1
TicksPerDay == 2
MaxKeyLen == 3
NumPartitions == 3

\* ------------------------------------------------------------- the tables
Orders == 1..MaxOrder

\* the status vocabulary of the producer (three of its five values)
statuses == {"CREATED", "PAID", "SHIPPED"}

Timestamps == 0..((MaxDay + 1) * TicksPerDay - 1)

NULL == "NULL"

\* the CUSTOMER_ID of an order's row in RETAIL.RAW."ORDER"
CustomerOf(o) == o + 100

\* one status event; its event_id (a uuid4) is its position in the log
event(o, st, ts) ==
  [order_id |-> o, customer_id |-> CustomerOf(o), new_status |-> st, status_ts |-> ts]

\* TIMESTAMP -> DATE, the implicit cast of a value stored in LAST_UPDATE_TS DATE
ToDate(ts) == ts \div TicksPerDay

\* DATE -> TIMESTAMP, the implicit cast of LAST_UPDATE_TS in a comparison
DateToTimestamp(d) == d * TicksPerDay

\* a DATE that is NULL is a negative day number; no INSERT or UPDATE writes one
IsNullDate(d) == d < 0

VARIABLES
  events,      \* RETAIL.RAW.EVENTS: the sequence of events appended so far
  table,       \* RETAIL.DWH.ORDER_STATUS: a set of rows
  pc,          \* per MERGE runner: "idle" or "running" (statement in flight)
  win,         \* per MERGE runner: the EVENTS rows its statement in flight read
  strm_offset, \* EVENTS_STRM: number of EVENTS rows behind the stream's offset
  last,        \* the MERGE committed last: who ran it, the rows it read, the row it chose per order
  key, all_partitions, available_partitions, result   \* a partitioner call

pipeVars == <<events, table, pc, win, strm_offset, last>>
routeVars == <<key, all_partitions, available_partitions, result>>
vars == <<events, table, pc, win, strm_offset, last,
          key, all_partitions, available_partitions, result>>

\* the runners of the MERGE statement: the scheduled task, and run_merge
Procs == {"task", "manual"}

EventIds == 1..MaxEvents

\* ------------------------------------------------------ the MERGE statement

\* FROM RETAIL.RAW.EVENTS: every row of the log
MergeSourceLimit(log) == {i \in DOMAIN log : i <= 1}
MergeSource(log) == DOMAIN log

\* the orders with an event among the rows w
OrdersIn(log, w) == {log[i].order_id : i \in w}

\* ROW_NUMBER() OVER (PARTITION BY ORDER_ID ORDER BY STATUS_TS DESC) = 1 can be
\* any row of the order with the greatest STATUS_TS: rows with equal STATUS_TS
\* are numbered in an order the engine chooses
RankFirstAsc(log, w, o) ==
  {i \in w : /\ log[i].order_id = o
             /\ \A j \in w : log[j].order_id = o => log[j].status_ts >= log[i].status_ts}
RankFirst(log, w, o) ==
  {i \in w : /\ log[i].order_id = o
             /\ \A j \in w : log[j].order_id = o => log[j].status_ts <= log[i].status_ts}

\* the possible results of the USING subquery, as the event chosen per order
\* (0: the order has no event)
Picks(log, w) ==
  {f \in [Orders -> 0..MaxEvents] :
     \A o \in Orders : IF o \in OrdersIn(log, w) THEN f[o] \in RankFirst(log, w, o)
                                                  ELSE f[o] = 0}

\* SELECT ORDER_ID, CUSTOMER_ID, NEW_STATUS, STATUS_TS AS LAST_EVENT_TS
SourceRows(log, pick) ==
  {[order_id |-> log[pick[o]].order_id, customer_id |-> log[pick[o]].customer_id,
    new_status |-> log[pick[o]].new_status, last_event_ts |-> log[pick[o]].status_ts]
     : o \in {x \in Orders : pick[x] # 0}}

\* ON T.ORDER_ID = S.ORDER_ID
OnMatch(T, S) == T.order_id = S.order_id

\* WHEN MATCHED AND (...) AND (...)
WhenMatchedNoTsGuard(T, S) ==
  T.current_status # S.new_status \/ T.current_status = NULL
WhenMatchedNoStatusGuard(T, S) ==
  S.last_event_ts > DateToTimestamp(T.last_update_ts) \/ IsNullDate(T.last_update_ts)
WhenMatched(T, S) ==
  /\ (S.last_event_ts > DateToTimestamp(T.last_update_ts) \/ IsNullDate(T.last_update_ts))
  /\ (T.current_status # S.new_status \/ T.current_status = NULL)

\* THEN UPDATE SET ...
UpdateSet(T, S) ==
  [order_id |-> T.order_id,
   customer_id |-> S.customer_id,
   previous_status |-> T.current_status,
   current_status |-> S.new_status,
   last_update_ts |-> ToDate(S.last_event_ts)]

\* WHEN NOT MATCHED THEN INSERT ... VALUES ...
InsertValues(S) ==
  [order_id |-> S.order_id,
   customer_id |-> S.customer_id,
   previous_status |-> NULL,
   current_status |-> S.new_status,
   last_update_ts |-> ToDate(S.last_event_ts)]

\* MERGE INTO ORDER_STATUS AS T USING src AS S: the table after the statement
MergeInto(tbl, src) ==
  LET upd(T) == {S \in src : OnMatch(T, S) /\ WhenMatched(T, S)}
      kept == {T \in tbl : upd(T) = {}}
      updated == {UpdateSet(T, S) : <<T, S>> \in {p \in tbl \X src : p[2] \in upd(p[1])}}
      inserted == {InsertValues(S) : S \in {S \in src : \A T \in tbl : ~OnMatch(T, S)}}
  IN kept \cup updated \cup inserted

\* ---------------------------------------------------------- the partitioners

\* the bytes keys are made of: "1", "2", "c", and 0xB2, 0xC2 (0xC2 0xB2 is the
\* UTF-8 encoding of U+00B2, SUPERSCRIPT TWO; alone, or in any other arrangement,
\* the two do not decode)
KeyBytes == {49, 50, 99, 178, 194}

BytesUpTo(n) == UNION {[1..m -> KeyBytes] : m \in 0..n}

\* key: Optional[bytes]
None == [some |-> FALSE, bytes |-> <<>>]
Some(b) == [some |-> TRUE, bytes |-> b]
Keys == {None} \cup {Some(b) : b \in BytesUpTo(MaxKeyLen)}

Partitions == 0..(NumPartitions - 1)

\* available_partitions: the lists of distinct partitions, the empty one included
AvailableLists ==
  {s \in UNION {[1..m -> Partitions] : m \in 0..NumPartitions} :
     \A i, j \in DOMAIN s : i # j => s[i] # s[j]}

AllPartitionLists == {<<>>, [i \in 1..NumPartitions |-> i - 1]}

\* what a call does: it returns a value or raises
Return(v) == [raised |-> FALSE, value |-> v]
Raise == [raised |-> TRUE, value |-> 0]

\* lst[i] of a Python list, for i >= 0 (IndexError beyond the end)
Index(lst, i) == IF i < Len(lst) THEN Return(lst[i + 1]) ELSE Raise

\* position of a key among the byte strings over KeyBytes, shortest first and
\* then in order of bytes
Rank(b) == Cardinality({x \in KeyBytes : x < b})
RECURSIVE Pow(_, _)
Pow(a, n) == IF n = 0 THEN 1 ELSE a * Pow(a, n - 1)
RECURSIVE Base(_, _)
Base(bytes, n) ==
  IF bytes = <<>> THEN 0
  ELSE Base(SubSeq(bytes, 1, Len(bytes) - 1), n) * n + Rank(bytes[Len(bytes)])
KeyNumber(bytes) ==
  (Pow(Cardinality(KeyBytes), Len(bytes)) - 1) \div (Cardinality(KeyBytes) - 1)
    + Base(bytes, Cardinality(KeyBytes)) + 1

\* int.from_bytes(hashlib.sha256(key).digest()[:8], byteorder="big", signed=False)
\* modulo 12, for the byte strings over KeyBytes of length 0 to 4 in the order of
\* KeyNumber.  For a list of 1, 2, 3 or 4 partitions, key_hash % len is this value
\* % len.
Sha256Mod12Table ==
  <<
    4, 1, 10, 2, 0, 4, 10, 0, 3, 4, 9, 8, 7, 5, 9, 4, 11, 9, 5, 10, 4, 0, 10, 9, 2, 5, 3, 5, 11, 11, 9, 6, 5, 6, 8, 3, 1, 0, 4, 3,
    4, 6, 10, 5, 0, 9, 5, 8, 8, 3, 1, 6, 10, 6, 0, 1, 5, 0, 5, 7, 8, 2, 10, 9, 3, 1, 4, 11, 6, 9, 0, 8, 10, 0, 0, 3, 7, 6, 1, 9,
    7, 1, 1, 5, 9, 0, 5, 3, 1, 1, 3, 5, 9, 4, 11, 0, 2, 1, 8, 2, 5, 6, 4, 8, 8, 10, 3, 11, 1, 7, 7, 1, 7, 2, 0, 11, 0, 8, 4, 6,
    7, 11, 5, 4, 5, 6, 5, 2, 6, 1, 4, 2, 11, 5, 9, 4, 3, 11, 0, 5, 2, 9, 4, 7, 9, 8, 10, 4, 10, 2, 10, 5, 1, 2, 1, 9, 7, 5, 2, 9,
    3, 8, 3, 8, 6, 3, 7, 0, 6, 9, 11, 10, 10, 2, 5, 9, 5, 4, 9, 1, 7, 11, 1, 10, 1, 4, 8, 2, 5, 2, 5, 10, 0, 8, 1, 5, 4, 5, 4, 9,
    11, 4, 2, 6, 4, 6, 8, 2, 8, 9, 4, 0, 1, 7, 8, 0, 0, 0, 5, 9, 5, 8, 7, 5, 1, 6, 8, 0, 3, 3, 0, 4, 9, 8, 5, 3, 2, 11, 11, 0,
    7, 5, 2, 11, 5, 7, 7, 11, 9, 8, 5, 6, 8, 10, 11, 1, 10, 4, 2, 1, 1, 4, 10, 1, 6, 10, 9, 1, 3, 10, 7, 11, 7, 11, 10, 6, 5, 9, 9, 3,
    7, 3, 9, 3, 1, 10, 10, 7, 2, 7, 11, 10, 7, 6, 11, 9, 9, 1, 5, 7, 7, 1, 11, 9, 7, 7, 8, 11, 9, 9, 9, 6, 1, 9, 5, 8, 3, 2, 2, 2,
    4, 1, 4, 4, 6, 6, 11, 1, 9, 9, 9, 4, 11, 1, 8, 8, 2, 2, 3, 6, 9, 2, 0, 10, 1, 5, 5, 9, 9, 0, 10, 9, 4, 4, 11, 9, 0, 8, 2, 6,
    11, 9, 3, 6, 9, 7, 11, 5, 9, 1, 9, 4, 2, 1, 4, 1, 9, 6, 6, 6, 2, 6, 5, 4, 1, 3, 10, 8, 11, 4, 3, 5, 10, 9, 10, 6, 4, 11, 2, 8,
    4, 9, 11, 8, 11, 6, 5, 9, 11, 2, 0, 0, 11, 1, 8, 2, 1, 3, 0, 5, 8, 11, 8, 9, 5, 11, 4, 3, 1, 1, 0, 5, 4, 9, 5, 0, 9, 6, 0, 11,
    2, 1, 7, 11, 5, 8, 0, 5, 10, 10, 11, 11, 10, 1, 2, 3, 6, 5, 4, 8, 6, 5, 2, 10, 8, 1, 3, 9, 9, 6, 0, 4, 6, 11, 3, 8, 11, 1, 4, 8,
    11, 2, 4, 7, 8, 0, 7, 11, 8, 11, 10, 2, 11, 8, 11, 2, 9, 8, 1, 2, 0, 9, 5, 6, 11, 6, 2, 5, 9, 4, 2, 10, 9, 3, 5, 2, 1, 7, 10, 4,
    5, 4, 5, 4, 9, 8, 4, 7, 6, 4, 3, 0, 10, 10, 2, 8, 1, 8, 7, 4, 8, 7, 5, 7, 3, 3, 6, 0, 10, 9, 2, 5, 1, 1, 1, 0, 5, 10, 11, 11,
    0, 6, 3, 6, 4, 7, 2, 11, 2, 4, 9, 0, 10, 4, 10, 10, 11, 6, 0, 10, 6, 8, 6, 2, 0, 8, 0, 10, 3, 3, 5, 8, 4, 3, 0, 6, 6, 4, 8, 7,
    6, 3, 9, 11, 1, 3, 9, 7, 3, 0, 4, 11, 8, 8, 9, 5, 8, 8, 7, 6, 7, 4, 7, 6, 9, 2, 1, 1, 10, 4, 1, 5, 4, 8, 5, 8, 11, 8, 2, 2,
    6, 5, 2, 7, 2, 0, 2, 6, 6, 3, 5, 6, 3, 11, 11, 6, 6, 1, 8, 0, 6, 2, 2, 2, 9, 5, 3, 5, 6, 1, 7, 9, 9, 5, 5, 9, 7, 4, 0, 3,
    11, 11, 2, 5, 11, 7, 6, 11, 4, 5, 3, 11, 1, 6, 0, 3, 11, 4, 2, 3, 9, 5, 9, 0, 0, 0, 6, 8, 10, 1, 3, 0, 3, 1, 1, 11, 7, 3, 4, 11,
    10, 10, 0, 9, 0, 10, 11, 4, 2, 0, 4, 4, 11, 10, 11, 4, 0, 3, 11, 5, 0, 0, 5, 10, 3, 5, 5, 11, 8, 6, 10, 11, 10, 4, 1, 2, 4, 9, 11, 10,
    10, 6, 8, 1, 6, 11, 1, 8, 8, 8, 9, 3, 0, 2, 5, 3, 4, 7, 2, 4, 0
  >>
key_hash_mod12(bytes) == Sha256Mod12Table[KeyNumber(bytes)]

default_partitioner_unsafe(k, allp, avail) ==
  IF ~k.some THEN Index(avail, 0)
  ELSE IF Len(avail) = 0 THEN Raise
  ELSE Index(avail, key_hash_mod12(k.bytes) % Len(avail))
default_partitioner(k, allp, avail) ==
  IF avail = <<>> THEN Return(0)
  ELSE IF ~k.some THEN Index(avail, 0)
  ELSE Index(avail, key_hash_mod12(k.bytes) % Len(avail))

\* key.decode("utf-8"), as the sequence of code points, for bytes of KeyBytes:
\* a byte below 0x80 is its own code point, a lead byte 0xC2..0xDF takes one
\* continuation byte 0x80..0xBF, and anything else is a UnicodeDecodeError
RECURSIVE decode(_)
decode(bytes) ==
  IF bytes = <<>> THEN [ok |-> TRUE, text |-> <<>>]
  ELSE IF bytes[1] < 128
    THEN LET r == decode(Tail(bytes))
         IN [ok |-> r.ok, text |-> <<bytes[1]>> \o r.text]
  ELSE IF /\ bytes[1] >= 194 /\ bytes[1] <= 223
          /\ Len(bytes) >= 2 /\ bytes[2] >= 128 /\ bytes[2] <= 191
    THEN LET r == decode(Tail(Tail(bytes)))
         IN [ok |-> r.ok,
             text |-> <<(bytes[1] - 192) * 64 + (bytes[2] - 128)>> \o r.text]
  ELSE [ok |-> FALSE, text |-> <<>>]

\* str.isdecimal and str.isdigit, on the code points below U+0100: the digits 0-9
\* are both, the superscripts U+00B2, U+00B3 and U+00B9 are digits only
isdecimal(ch) == ch >= 48 /\ ch <= 57
isdigit(ch) == isdecimal(ch) \/ ch \in {178, 179, 185}

\* int(digits) of a non-empty string of isdigit characters: the base-ten value,
\* or a ValueError if a character is not a decimal
RECURSIVE int(_)
int(digits) ==
  IF digits = <<>> THEN Return(0)
  ELSE LET r == int(SubSeq(digits, 1, Len(digits) - 1))
           ch == digits[Len(digits)]
       IN IF r.raised \/ ~isdecimal(ch) THEN Raise
          ELSE Return(r.value * 10 + (ch - 48))

partition_by_customer_id(k, allp, avail) ==
  IF ~k.some THEN default_partitioner(k, allp, avail)
  ELSE LET d == decode(k.bytes)
           digits == SelectSeq(d.text, isdigit)
           cid == int(digits)
       IN IF ~d.ok THEN default_partitioner(k, allp, avail)
          ELSE IF digits # <<>> /\ cid.raised THEN default_partitioner(k, allp, avail)
          ELSE IF digits # <<>>
            THEN IF avail = <<>> THEN Return(0)
                 ELSE Index(avail, cid.value % Len(avail))
          ELSE default_partitioner(k, allp, avail)

NoCall == [op |-> "none", raised |-> FALSE, value |-> 0]
Called(op, r) == [op |-> op, raised |-> r.raised, value |-> r.value]

\* ------------------------------------------------------------- the pipeline

NoPick == [o \in Orders |-> 0]

NoPass == [who |-> "none", win |-> {}, picked |-> NoPick]

\* after setup_dwh, setup_stream and setup_task: an empty ORDER_STATUS, a stream
\* at the start of the log, the task resumed and idle
PipeInit ==
  /\ events = <<>>
  /\ table = {}
  /\ pc = [p \in Procs |-> "idle"]
  /\ win = [p \in Procs |-> {}]
  /\ strm_offset = 0
  /\ last = NoPass

\* no partitioner call is being looked at
RouteIdle ==
  /\ key = None
  /\ all_partitions = <<>>
  /\ available_partitions = <<>>
  /\ result = NoCall

Init == PipeInit /\ RouteIdle

\* a producer appends one event to the log
Produce(o, st, ts) ==
  /\ Len(events) < MaxEvents
  /\ events' = Append(events, event(o, st, ts))
  /\ UNCHANGED <<table, pc, win, strm_offset, last>>
  /\ UNCHANGED routeVars

\* a MERGE statement starts: a tick of the task's schedule, or a call of
\* run_merge.  A task does not start a run while its previous run is in flight.
Begin(p) ==
  /\ pc[p] = "idle"
  /\ pc' = [pc EXCEPT ![p] = "running"]
  /\ win' = [win EXCEPT ![p] = MergeSource(events)]
  /\ UNCHANGED <<events, table, strm_offset, last>>
  /\ UNCHANGED routeVars

\* the statement in flight commits
Commit(p) ==
  /\ pc[p] = "running"
  /\ \E pick \in Picks(events, win[p]) :
       /\ table' = MergeInto(table, SourceRows(events, pick))
       /\ last' = [who |-> p, win |-> win[p], picked |-> pick]
  /\ pc' = [pc EXCEPT ![p] = "idle"]
  /\ win' = [win EXCEPT ![p] = {}]
  /\ UNCHANGED <<events, strm_offset>>
  /\ UNCHANGED routeVars

\* the statement in flight fails or is aborted (cur.execute raises, a task run
\* ends in error): nothing is written
Fail(p) ==
  /\ pc[p] = "running"
  /\ pc' = [pc EXCEPT ![p] = "idle"]
  /\ win' = [win EXCEPT ![p] = {}]
  /\ UNCHANGED <<events, table, strm_offset, last>>
  /\ UNCHANGED routeVars

Next ==
  \/ \E o \in Orders, st \in statuses, ts \in Timestamps : Produce(o, st, ts)
  \/ \E p \in Procs : Begin(p)
  \/ \E p \in Procs : Commit(p)
  \/ \E p \in Procs : Fail(p)

Spec == Init /\ [][Next]_vars

\* the scheduled task fires on every tick of its CRON schedule while it is resumed,
\* and a run that fails is followed by runs that do not fail for ever
FairSpec ==
  /\ Init /\ [][Next]_vars
  /\ WF_vars(Begin("task"))
  /\ SF_vars(Commit("task"))

\* --------------------------------------------------- calls of a partitioner

\* any key, any all_partitions, any available_partitions; nothing called yet
RouteInit ==
  /\ PipeInit
  /\ key \in Keys
  /\ all_partitions \in AllPartitionLists
  /\ available_partitions \in AvailableLists
  /\ result = NoCall

CallDefault ==
  /\ result' = Called("default", default_partitioner(key, all_partitions, available_partitions))
  /\ UNCHANGED <<key, all_partitions, available_partitions>>
  /\ UNCHANGED pipeVars

CallCustomer ==
  /\ result' = Called("customer", partition_by_customer_id(key, all_partitions, available_partitions))
  /\ UNCHANGED <<key, all_partitions, available_partitions>>
  /\ UNCHANGED pipeVars

RouteNext == CallDefault \/ CallCustomer

RouteSpec == RouteInit /\ [][RouteNext]_vars

\* ------------------------------------------------------------------ claims

RowsOf(tbl, o) == {T \in tbl : T.order_id = o}
EventsOf(o) == {i \in DOMAIN events : events[i].order_id = o}

\* C1: a MERGE that reads the same EVENTS rows as the MERGE committed just
\* before it leaves every ORDER_STATUS row as that one left it.
Idempotence ==
  [][(last.who # "none" /\ last'.win = last.win) => table' = table]_vars

\* C2: from one step to the next every order's row stays and its last_update_ts
\* does not decrease.
Monotonicity ==
  [][\A T \in table :
       /\ RowsOf(table', T.order_id) # {}
       /\ \A U \in RowsOf(table', T.order_id) : U.last_update_ts >= T.last_update_ts]_vars

\* a row inserted from an event of day 0 and then updated to day 1
MonotonicityWitness ==
  \E T \in table :
    /\ T.previous_status # NULL
    /\ T.last_update_ts = 1
    /\ \E i \in EventsOf(T.order_id) :
         events[i].new_status = T.previous_status /\ ToDate(events[i].status_ts) = 0
    /\ \A i \in EventsOf(T.order_id) :
         events[i].new_status = T.previous_status => ToDate(events[i].status_ts) = 0

\* C3: once a committed MERGE has read all the events of an order, which has
\* at least two events with distinct status_ts and distinct statuses, the order's
\* row has the status of the greatest status_ts as current_status, the status of
\* the second-greatest as previous_status, and the greatest status_ts as
\* last_update_ts.
LatestWins ==
  \A o \in Orders :
    LET E == EventsOf(o) IN
    ( /\ last.who # "none"
      /\ E \subseteq last.win
      /\ Cardinality(E) >= 2
      /\ \A i, j \in E : i # j => /\ events[i].status_ts # events[j].status_ts
                                  /\ events[i].new_status # events[j].new_status )
    => \E i, j \in E :
         /\ \A k \in E : events[k].status_ts <= events[i].status_ts
         /\ j # i
         /\ \A k \in E \ {i} : events[k].status_ts <= events[j].status_ts
         /\ \E T \in table :
              /\ RowsOf(table, o) = {T}
              /\ T.current_status = events[i].new_status
              /\ T.previous_status = events[j].new_status
              /\ DateToTimestamp(T.last_update_ts) = events[i].status_ts

\* C4: when the event a MERGE chose for an order has the status that the order's
\* row has as current_status, the MERGE leaves the row as it is.
NoSelfTransition ==
  [][\A T \in table :
       (/\ last'.picked[T.order_id] # 0
        /\ events[last'.picked[T.order_id]].new_status = T.current_status)
       => RowsOf(table', T.order_id) = {T}]_vars

\* the MERGE committed last chose, for an order, an event of the row's status on a
\* later day than the row's last_update_ts, and did not write the row
NoSelfTransitionWitness ==
  \E T \in table :
    /\ last.picked[T.order_id] # 0
    /\ events[last.picked[T.order_id]].new_status = T.current_status
    /\ ToDate(events[last.picked[T.order_id]].status_ts) > T.last_update_ts

\* C5: a MERGE that reads the same EVENTS rows as the MERGE committed just
\* before it chooses the same event for every order.
TieBreakDeterminism ==
  [][(last.who # "none" /\ last'.win = last.win) => last'.picked = last.picked]_vars

\* C6 as stated: after a committed run of the scheduled task the cursor
\* EVENTS_STRM stands just behind the EVENTS rows the run read.
CursorAdvances ==
  last.who = "task" => strm_offset = Cardinality(last.win)

\* C6 as amended: every event of the log is eventually among the rows read by a
\* committed run of the scheduled task.
NoEventSkipped ==
  \A i \in EventIds :
    (i \in DOMAIN events) ~> (last.who = "task" /\ i \in last.win)

\* a committed run of the scheduled task has read the whole log, of two events
\* or more
NoEventSkippedWitness ==
  /\ last.who = "task"
  /\ Len(events) >= 2
  /\ last.win = DOMAIN events

\* C7: at most one MERGE statement is in flight.
SerializedPasses ==
  Cardinality({p \in Procs : pc[p] = "running"}) <= 1

\* C8: every row's last_update_ts is the status_ts of an event of the row's order
\* that has the row's current_status.
ExactLastUpdateTs ==
  \A T \in table :
    \E i \in EventsOf(T.order_id) :
      /\ events[i].new_status = T.current_status
      /\ events[i].status_ts = DateToTimestamp(T.last_update_ts)

\* C9: a call of either partitioner with no available partition returns 0 and
\* does not raise.
FallbackSafety ==
  (result.op # "none" /\ available_partitions = <<>>)
    => (~result.raised /\ result.value = 0)

\* partition_by_customer_id was called with no available partition and a key
\* that holds a digit
FallbackSafetyWitness ==
  /\ result.op = "customer"
  /\ available_partitions = <<>>
  /\ key.some
  /\ \E i \in DOMAIN key.bytes : key.bytes[i] = 49
  /\ ~result.raised /\ result.value = 0

\* the values of the runs of decimal digits of a text (a run is not part of a
\* longer one)
RunValues(text) ==
  {int(SubSeq(text, i, j)).value :
     <<i, j>> \in {p \in (DOMAIN text) \X (DOMAIN text) :
                    /\ p[1] <= p[2]
                    /\ \A n \in p[1]..p[2] : isdecimal(text[n])
                    /\ (p[1] = 1 \/ ~isdecimal(text[p[1] - 1]))
                    /\ (p[2] = Len(text) \/ ~isdecimal(text[p[2] + 1]))}}

\* C10: with a partition available, partition_by_customer_id either returns
\* available_partitions[n mod len], n being the value of a run of decimal digits
\* of the key's text, or, the key having no decimal digit or not decoding,
\* does what default_partitioner does.
CustomerRouting ==
  (result.op = "customer" /\ key.some /\ available_partitions # <<>>)
    => LET d == decode(key.bytes) IN
       IF d.ok /\ \E n \in DOMAIN d.text : isdecimal(d.text[n])
         THEN /\ ~result.raised
              /\ \E v \in RunValues(d.text) :
                   result.value = available_partitions[(v % Len(available_partitions)) + 1]
         ELSE Called("customer", default_partitioner(key, all_partitions, available_partitions))
                = result

\* the events of an order with a status_ts that no other event of the order
\* reaches: the order's latest event, if it is the only one
SingleLatest(o) ==
  {i \in EventsOf(o) : \A j \in EventsOf(o) \ {i} : events[j].status_ts < events[i].status_ts}

\* C11: when the MERGE committed last has read the whole log, every order whose
\* greatest status_ts is held by a single event has a row, and the row's
\* current_status is that event's new_status.
ConvergenceToLatest ==
  (last.who # "none" /\ last.win = DOMAIN events)
    => \A o \in Orders : \A i \in SingleLatest(o) :
         /\ RowsOf(table, o) # {}
         /\ \A T \in RowsOf(table, o) : T.current_status = events[i].new_status

\* the MERGE committed last has read the whole log and an order has two events,
\* the later of them merged into a row that held the earlier one's status
ConvergenceToLatestWitness ==
  /\ last.who # "none"
  /\ last.win = DOMAIN events
  /\ \E o \in Orders : \E i \in SingleLatest(o) : \E T \in RowsOf(table, o) :
       /\ Cardinality(EventsOf(o)) >= 2
       /\ T.current_status = events[i].new_status
       /\ T.previous_status # NULL

\* C12: from an empty ORDER_STATUS, every row's previous_status is NULL or
\* differs from its current_status, and no two rows have the same order_id.
DistinctPreviousCurrent ==
  /\ \A T \in table : T.previous_status = NULL \/ T.previous_status # T.current_status
  /\ \A T \in table : \A U \in table : T.order_id = U.order_id => T = U

\* a MERGE has updated the row of an order it met again: the row holds a
\* previous_status, and both statuses come from events of the order
DistinctPreviousCurrentWitness ==
  \E T \in table :
    /\ T.previous_status # NULL
    /\ \E i \in EventsOf(T.order_id) : \E j \in EventsOf(T.order_id) :
         /\ events[i].new_status = T.previous_status
         /\ events[j].new_status = T.current_status

====
